---- MODULE Spec2Model ----
(***************************************************************************)
(* Model of app.py: the sample browser page.  One render of                *)
(* display_grouped_samples("samples", "Samples", pattern) over a folder of *)
(* JSON files with paired WAV files.  File names and paths are sequences   *)
(* of one-character strings so that the two regular expressions, the path  *)
(* helpers and the sorts are computed the way the code computes them.      *)
(***************************************************************************)
EXTENDS Integers, Sequences, FiniteSets, TLC

\* Largest number of *.json entries in the folder that the model explores.
MaxFiles == 2

------------------------------------------------------------------------------
\* Characters and strings

\* The characters that occur in the modelled names, in code point order.
Chars ==
    << "\n", "-", ".", "/", "0", "1", "2", "3", "4", "5", "6", "7", "8", "9",
       "_", "a", "b", "d", "e", "j", "l", "m", "n", "o", "p", "s", "t", "v", "w" >>

Ord(c) == CHOOSE i \in DOMAIN Chars : Chars[i] = c

Digits == {"0", "1", "2", "3", "4", "5", "6", "7", "8", "9"}

DigitVal(c) == Ord(c) - Ord("0")

\* Python's str < str: the first differing character decides, a proper
\* prefix is smaller.
StrLess(s, t) ==
    \E i \in 1..(Len(t)) :
        /\ \A j \in 1..(i - 1) : j <= Len(s) /\ s[j] = t[j]
        /\ \/ i = Len(s) + 1
           \/ i <= Len(s) /\ Ord(s[i]) < Ord(t[i])

\* s[a..b] as a sequence (empty when b < a).
Slice(s, a, b) == SubSeq(s, a, b)

\* t occurs in s starting at position i.
StartsAt(s, i, t) ==
    /\ i >= 1
    /\ i + Len(t) - 1 <= Len(s)
    /\ \A j \in 1..Len(t) : s[i + j - 1] = t[j]

Marker == << "-", "a", "t", "t", "e", "m", "p", "t", "-" >>
JsonExt == << ".", "j", "s", "o", "n" >>
WavExt == << ".", "w", "a", "v" >>
Unknown == << "u", "n", "k", "n", "o", "w", "n" >>

\* int(x) for a string of decimal digits.
RECURSIVE int(_)
int(x) ==
    IF x = << >> THEN 0
    ELSE int(Slice(x, 1, Len(x) - 1)) * 10 + DigitVal(x[Len(x)])

------------------------------------------------------------------------------
\* os.path helpers

Sep == << "/" >>

os_path_join(folder, name) == folder \o Sep \o name

os_path_basename(p) ==
    LET slashes == {i \in 1..Len(p) : p[i] = "/"}
        last == IF slashes = {} THEN 0
                ELSE CHOOSE i \in slashes : \A j \in slashes : j <= i
    IN  Slice(p, last + 1, Len(p))

\* os.path.splitext(filename)[0]: cut at the last dot, unless that dot
\* belongs to the leading run of dots.
splitext_root(filename) ==
    LET dots == {i \in 1..Len(filename) :
                    /\ filename[i] = "."
                    /\ \E j \in 1..(i - 1) : filename[j] # "."}
    IN  IF dots = {} THEN filename
        ELSE Slice(filename, 1, (CHOOSE i \in dots : \A j \in dots : j <= i) - 1)

------------------------------------------------------------------------------
\* Regular expressions

\* re.compile(r"^(.*?)-attempt-(\d+)\.json$").match(filename): the start
\* positions of "-attempt-" at which the whole pattern matches.  "." does
\* not match a newline, "$" matches at the end or before a final newline.
AtEnd(s, i) == i = Len(s) + 1 \/ (i = Len(s) /\ s[i] = "\n")

DigitsEnd(s, i) ==
    {j \in (i + 1)..(Len(s) + 1) :
        /\ StartsAt(s, j, JsonExt)
        /\ AtEnd(s, j + Len(JsonExt))
        /\ \A k \in i..(j - 1) : s[k] \in Digits}

AttemptMatchStarts(filename) ==
    {i \in 1..Len(filename) :
        /\ StartsAt(filename, i, Marker)
        /\ \A k \in 1..(i - 1) : filename[k] # "\n"
        /\ DigitsEnd(filename, i + Len(Marker)) # {}}

\* The match object: ok, group(1) and group(2).  The lazy first group takes
\* the leftmost start that lets the rest of the pattern match.
AttemptMatch(filename) ==
    LET starts == AttemptMatchStarts(filename)
    IN  IF starts = {} THEN [ok |-> FALSE, g1 |-> << >>, g2 |-> << >>]
        ELSE LET i == CHOOSE a \in starts : \A b \in starts : a <= b
                 d == i + Len(Marker)
                 ends == DigitsEnd(filename, d)
                 j == CHOOSE a \in ends : \A b \in ends : b <= a
             IN  [ok |-> TRUE,
                  g1 |-> Slice(filename, 1, i - 1),
                  g2 |-> Slice(filename, d, j - 1)]

\* re.match(r"^(.*?)-attempt-", filename)
VoiceMatch(filename) ==
    LET starts == {i \in 1..Len(filename) :
                      /\ StartsAt(filename, i, Marker)
                      /\ \A k \in 1..(i - 1) : filename[k] # "\n"}
    IN  IF starts = {} THEN [ok |-> FALSE, g1 |-> << >>]
        ELSE [ok |-> TRUE,
              g1 |-> Slice(filename, 1,
                           (CHOOSE a \in starts : \A b \in starts : a <= b) - 1)]

------------------------------------------------------------------------------
\* JSON documents and files

\* Python values that json.load can return.  None is both the parse of the
\* document null and the absence marker of load_json.
None == [t |-> "null"]
JObject(fields) == [t |-> "object", v |-> fields]
JArray(items) == [t |-> "array", v |-> items]
JNumber(n) == [t |-> "number", v |-> n]

Hello == "Hello world"

JsonValues ==
    { None,
      JObject([f \in {} |-> ""]),
      JObject([f \in {"input_text"} |-> Hello]),
      JObject([f \in {"voice"} |-> "af_alloy"]),
      JNumber(5),
      JArray(<< "input_text" >>) }

\* What open() + json.load find at a path the directory listing names.
Missing == [st |-> "missing", val |-> None]
Unreadable == [st |-> "unreadable", val |-> None]
Malformed == [st |-> "malformed", val |-> None]
Valid(v) == [st |-> "valid", val |-> v]

FileStates == {Missing, Unreadable, Malformed} \cup {Valid(v) : v \in JsonValues}

\* Python truthiness: bool(value).
Truthy(x) ==
    CASE x.t = "null" -> FALSE
      [] x.t = "object" -> DOMAIN x.v # {}
      [] x.t = "array" -> Len(x.v) > 0
      [] x.t = "number" -> x.v # 0

\* key in x for the values above: "yes", "no", or "TypeError" for a value
\* that is not a container.
Contains(x, key) ==
    CASE x.t = "object" -> IF key \in DOMAIN x.v THEN "yes" ELSE "no"
      [] x.t = "array" ->
            IF \E i \in 1..Len(x.v) : x.v[i] = key THEN "yes" ELSE "no"
      [] x.t \in {"number", "null"} -> "TypeError"

\* x[key] with a string key: only a dict can be indexed by a string.
Subscript(x, key) ==
    IF x.t = "object"
    THEN [ok |-> TRUE, val |-> x.v[key]]
    ELSE [ok |-> FALSE, val |-> ""]

\* load_json with a handler that swallows the failure without st.error.
load_json_silent(fs, filepath) ==
    IF fs[filepath].st = "valid"
    THEN [ret |-> fs[filepath].val, errors |-> << >>]
    ELSE [ret |-> None, errors |-> << >>]

\* load_json(filepath): the returned value and the st.error calls made.
load_json(fs, filepath) ==
    IF fs[filepath].st = "valid"
    THEN [ret |-> fs[filepath].val, errors |-> << >>]
    ELSE [ret |-> None,
          errors |-> << [k |-> "error", src |-> "load_json", p |-> filepath] >>]

------------------------------------------------------------------------------
\* The folder

Folder == << "s", "a", "m", "p", "l", "e", "s" >>

Name(voice, attempt, ext) == voice \o Marker \o attempt \o ext

\* Directory entries the model chooses from: two files of attempt "2" (one
\* with the marker twice in its name), attempt "02", attempt "10", whose
\* path sorts before those of attempt "2", and a name without the marker.
Names ==
    { Name(<< "a" >>, << "2" >>, JsonExt),
      Name(<< "a" >> \o Marker \o << "b" >>, << "2" >>, JsonExt),
      Name(<< "b" >>, << "0", "2" >>, JsonExt),
      Name(<< "a" >>, << "1", "0" >>, JsonExt),
      << "b", "a", "d", "n", "a", "m", "e" >> \o JsonExt }

AudioStates == {"absent", "readable", "unreadable"}

\* fnmatch(name, "*.json"): the suffix, and "*" does not match a leading dot.
fnmatch_json(name) ==
    /\ Len(name) >= Len(JsonExt)
    /\ StartsAt(name, Len(name) - Len(JsonExt) + 1, JsonExt)
    /\ name[1] # "."

\* glob.glob(os.path.join(folder, "*.json")) over the directory listing.
glob_json(folder, listing) ==
    {os_path_join(folder, n) : n \in {m \in listing : fnmatch_json(m)}}

\* sorted(paths): ascending by StrLess.
RECURSIVE sorted(_)
sorted(paths) ==
    IF paths = {} THEN << >>
    ELSE LET least == CHOOSE x \in paths : \A y \in paths \ {x} : StrLess(x, y)
         IN  << least >> \o sorted(paths \ {least})

\* The WAV path display_grouped_samples derives for a JSON path.
wav_path(folder, json_file) ==
    os_path_join(folder, splitext_root(os_path_basename(json_file)) \o WavExt)

------------------------------------------------------------------------------
\* group_by_attempt

\* A dict with string keys: the keys in insertion order and the value lists.
EmptyDict == [keys |-> << >>, lists |-> [x \in {} |-> << >>]]

HasKey(d, key) == \E i \in 1..Len(d.keys) : d.keys[i] = key

\* groups[attempt] = [filepath]: the group keeps only its latest file.
setdefault_overwrite(d, attempt, filepath) ==
    [keys |-> IF HasKey(d, attempt) THEN d.keys ELSE Append(d.keys, attempt),
     lists |-> [x \in DOMAIN d.lists \cup {attempt} |->
                   IF x = attempt THEN << filepath >> ELSE d.lists[x]]]

\* groups.setdefault(attempt, []).insert(0, filepath): newest file first.
setdefault_prepend(d, attempt, filepath) ==
    [keys |-> IF HasKey(d, attempt) THEN d.keys ELSE Append(d.keys, attempt),
     lists |-> [x \in DOMAIN d.lists \cup {attempt} |->
                   IF x # attempt THEN d.lists[x]
                   ELSE IF HasKey(d, attempt) THEN << filepath >> \o d.lists[x]
                   ELSE << filepath >>]]

\* groups.setdefault(attempt, []).append(filepath)
setdefault_append(d, attempt, filepath) ==
    IF HasKey(d, attempt)
    THEN [d EXCEPT !.lists[attempt] = Append(@, filepath)]
    ELSE [keys |-> Append(d.keys, attempt),
          lists |-> [x \in DOMAIN d.lists \cup {attempt} |->
                        IF x = attempt THEN << filepath >> ELSE d.lists[x]]]

RECURSIVE group_loop(_, _, _)
group_loop(json_files, i, groups) ==
    IF i > Len(json_files) THEN groups
    ELSE LET filepath == json_files[i]
             match == AttemptMatch(os_path_basename(filepath))
         IN  group_loop(json_files, i + 1,
                        IF match.ok
                        THEN setdefault_append(groups, match.g2, filepath)
                        ELSE groups)

group_by_attempt(json_files) == group_loop(json_files, 1, EmptyDict)

\* sorted(keys, key=lambda x: int(x)): a stable sort, equal keys keep the
\* order they have in the dict.
RECURSIVE insert_by_int(_, _)
insert_by_int(done, x) ==
    IF done = << >> THEN << x >>
    ELSE IF int(done[Len(done)]) <= int(x) THEN Append(done, x)
    ELSE Append(insert_by_int(Slice(done, 1, Len(done) - 1), x), done[Len(done)])

RECURSIVE sorted_by_int(_)
sorted_by_int(keys) ==
    IF keys = << >> THEN << >>
    ELSE insert_by_int(sorted_by_int(Slice(keys, 1, Len(keys) - 1)), keys[Len(keys)])

------------------------------------------------------------------------------
\* Rendering

NoException == [type |-> "none", line |-> 0]
Raised(type, line) == [type |-> type, line |-> line]

Placeholder == "(no description available)"

\* One st.* call: its kind k, the attempt a and the JSON path p it belongs to
\* (empty when it has none) and its payload v.
Elem(k, a, p, v) == [k |-> k, a |-> a, p |-> p, v |-> v]

\* os.path.exists(wav_path)
os_path_exists(au, path) == path \in DOMAIN au /\ au[path] # "absent"

\* The metadata half of display_sample: load_json, then st.json or st.error.
display_sample_json(fs, attempt, json_path) ==
    LET loaded == load_json(fs, json_path)
        sample_data == loaded.ret
    IN  [e \in 1..Len(loaded.errors) |->
            Elem("load_error", attempt, json_path, loaded.errors[e].src)]
        \o (IF Truthy(sample_data)
            THEN << Elem("json", attempt, json_path, sample_data) >>
            ELSE << Elem("no_json_error", attempt, json_path, None) >>)

\* The audio half of display_sample: the elements rendered and the exception
\* that open() raises on a file that exists and cannot be read.
display_sample_audio(au, attempt, json_path, wav) ==
    IF os_path_exists(au, wav)
    THEN IF au[wav] = "readable"
         THEN [out |-> << Elem("audio", attempt, json_path, wav) >>,
               exc |-> NoException]
         ELSE [out |-> << >>, exc |-> Raised("PermissionError", 25)]
    ELSE [out |-> << Elem("wav_not_found", attempt, json_path, wav) >>,
          exc |-> NoException]

display_sample(fs, au, attempt, json_path, wav) ==
    LET second == display_sample_audio(au, attempt, json_path, wav)
    IN  [out |-> display_sample_json(fs, attempt, json_path) \o second.out,
         exc |-> second.exc]

\* The voice label of a file name.
voice_of(filename) ==
    LET voice_match == VoiceMatch(filename)
    IN  IF voice_match.ok THEN voice_match.g1 ELSE Unknown

\* Lines 61-65: the prompt of a group from its first file.
prompt_of(fs, attempt, first) ==
    LET loaded == load_json(fs, first)
        first_json == loaded.ret
        errors == [e \in 1..Len(loaded.errors) |->
                      Elem("load_error", attempt, first, loaded.errors[e].src)]
        has == IF Truthy(first_json) THEN Contains(first_json, "input_text")
               ELSE "no"
    IN  CASE has = "TypeError" ->
               [out |-> errors, exc |-> Raised("TypeError", 62)]
          [] has = "no" ->
               [out |-> errors \o << Elem("prompt", attempt, first, Placeholder) >>,
                exc |-> NoException]
          [] has = "yes" ->
               LET text == Subscript(first_json, "input_text")
               IN  IF text.ok
                   THEN [out |-> errors
                                 \o << Elem("prompt", attempt, first, text.val) >>,
                         exc |-> NoException]
                   ELSE [out |-> errors, exc |-> Raised("TypeError", 63)]

------------------------------------------------------------------------------
\* State

VARIABLES
    listing,     \* the entry names of the folder
    files,       \* JSON path -> what open() and json.load found there
    audio,       \* WAV path -> "absent", "readable" or "unreadable", as probed
    pc,          \* position of the render in display_grouped_samples
    json_files,  \* the sorted list of discovered JSON paths
    groups,      \* the dict returned by group_by_attempt
    attempts,    \* the attempt keys in the order they are visited
    ai,          \* index into attempts of the attempt being rendered
    fi,          \* index into the group of the next file to render
    out,         \* the elements rendered so far, in page order
    loads,       \* every load_json call so far: path, result, errors emitted
    exc          \* the exception that ended the render, if any

vars ==
    << listing, files, audio, pc, json_files, groups, attempts, ai, fi, out,
       loads, exc >>

Folders == {S \in SUBSET Names : Cardinality(S) <= MaxFiles}

NoReads == [x \in {} |-> Missing]
NoProbes == [x \in {} |-> "absent"]

\* The folder's files are not changed by the page; what a path holds is
\* fixed the first time the render reads it.
Init ==
    /\ listing \in Folders
    /\ files = NoReads
    /\ audio = NoProbes
    /\ pc = "start"
    /\ json_files = << >>
    /\ groups = EmptyDict
    /\ attempts = << >>
    /\ ai = 1
    /\ fi = 1
    /\ out = << >>
    /\ loads = << >>
    /\ exc = NoException

\* What a read of path can find: anything the first time, the same again
\* afterwards.
Finds(fs, path, all) == IF path \in DOMAIN fs THEN {fs[path]} ELSE all

\* The file system after path is found to hold state.
Reading(fs, path, state) ==
    [x \in DOMAIN fs \cup {path} |-> IF x = path THEN state ELSE fs[x]]

Call(fs, path) ==
    LET loaded == load_json(fs, path)
    IN  [p |-> path, ret |-> loaded.ret, errors |-> Len(loaded.errors)]

\* Lines 48-49: the header and the discovery of the JSON files.
Discover ==
    /\ pc = "start"
    /\ out' = Append(out, Elem("header", << >>, << >>, "Samples"))
    /\ json_files' = sorted(glob_json(Folder, listing))
    /\ pc' = "discovered"
    /\ UNCHANGED << listing, files, audio, groups, attempts, ai, fi, loads, exc >>

\* Lines 50-52: nothing to show.
NoFiles ==
    /\ pc = "discovered"
    /\ json_files = << >>
    /\ out' = Append(out, Elem("info", << >>, << >>, Folder))
    /\ pc' = "done"
    /\ UNCHANGED << listing, files, audio, json_files, groups, attempts, ai, fi, loads, exc >>

\* Lines 54-56: grouping and the order of the attempts.
Group ==
    /\ pc = "discovered"
    /\ json_files # << >>
    /\ groups' = group_by_attempt(json_files)
    /\ attempts' = sorted_by_int(groups'.keys)
    /\ ai' = 1
    /\ pc' = "attempt"
    /\ UNCHANGED << listing, files, audio, json_files, fi, out, loads, exc >>

\* Lines 56-58: the next attempt's subheader.
Subheader ==
    /\ pc = "attempt"
    /\ ai <= Len(attempts)
    /\ out' = Append(out, Elem("subheader", attempts[ai], << >>, attempts[ai]))
    /\ pc' = "prompt"
    /\ UNCHANGED << listing, files, audio, json_files, groups, attempts, ai, fi, loads, exc >>

\* Line 56, loop exhausted: the function returns.
Return ==
    /\ pc = "attempt"
    /\ ai > Len(attempts)
    /\ pc' = "done"
    /\ UNCHANGED << listing, files, audio, json_files, groups, attempts, ai, fi, out, loads, exc >>

\* Lines 60-65: the prompt line of the attempt.
Prompt ==
    /\ pc = "prompt"
    /\ LET attempt == attempts[ai]
           first == groups.lists[attempt][1]
       IN  \E state \in Finds(files, first, FileStates) :
              LET fs == Reading(files, first, state)
                  r == prompt_of(fs, attempt, first)
              IN  /\ files' = fs
                  /\ out' = out \o r.out
                  /\ loads' = Append(loads, Call(fs, first))
                  /\ exc' = r.exc
                  /\ pc' = IF r.exc = NoException THEN "files" ELSE "crashed"
    /\ fi' = 1
    /\ UNCHANGED << listing, audio, json_files, groups, attempts, ai >>

\* Lines 67-76: one sample of the attempt.
Sample ==
    /\ pc = "files"
    /\ fi <= Len(groups.lists[attempts[ai]])
    /\ LET attempt == attempts[ai]
           json_file == groups.lists[attempt][fi]
           filename == os_path_basename(json_file)
           voice == voice_of(filename)
           wav_file == wav_path(Folder, json_file)
           shown == Append(out, Elem("voice", attempt, json_file, voice))
       IN  \E state \in Finds(files, json_file, FileStates),
              probe \in Finds(audio, wav_file, AudioStates) :
              LET fs == Reading(files, json_file, state)
                  au == Reading(audio, wav_file, probe)
                  r == display_sample(fs, au, attempt, json_file, wav_file)
              IN  /\ files' = fs
                  /\ audio' = au
                  /\ out' = shown \o r.out
                            \o (IF r.exc = NoException
                                THEN << Elem("separator", attempt, json_file, "---") >>
                                ELSE << >>)
                  /\ loads' = Append(loads, Call(fs, json_file))
                  /\ exc' = r.exc
                  /\ pc' = IF r.exc = NoException THEN "files" ELSE "crashed"
    /\ fi' = fi + 1
    /\ UNCHANGED << listing, json_files, groups, attempts, ai >>

\* Line 77: the spacing after the attempt's samples.
EndAttempt ==
    /\ pc = "files"
    /\ fi > Len(groups.lists[attempts[ai]])
    /\ out' = Append(out, Elem("spacer", attempts[ai], << >>, "###"))
    /\ ai' = ai + 1
    /\ pc' = "attempt"
    /\ UNCHANGED << listing, files, audio, json_files, groups, attempts, fi, loads, exc >>

Next ==
    \/ Discover
    \/ NoFiles
    \/ Group
    \/ Subheader
    \/ Return
    \/ Prompt
    \/ Sample
    \/ EndAttempt

Spec == Init /\ [][Next]_vars

------------------------------------------------------------------------------
\* Properties

\* The grouping has been computed.
Grouped == pc \notin {"start", "discovered"} /\ json_files # << >>

Paths == {json_files[i] : i \in 1..Len(json_files)}

Matching(path) == AttemptMatch(os_path_basename(path)).ok

AttemptOf(path) == AttemptMatch(os_path_basename(path)).g2

\* The places <<key, index>> at which path occurs in the groups.
Occurrences(path) ==
    UNION {{<< key, j >> : j \in {n \in 1..Len(groups.lists[key]) :
                                      groups.lists[key][n] = path}}
           : key \in DOMAIN groups.lists}

\* The positions of the rendered elements of one kind.
Rendered(kind) == {i \in 1..Len(out) : out[i].k = kind}

\* The rendered elements of one kind that belong to a JSON path.
RenderedFor(kind, path) == {i \in Rendered(kind) : out[i].p = path}

\* The rendered elements of one kind that belong to an attempt.
RenderedIn(kind, attempt) == {i \in Rendered(kind) : out[i].a = attempt}

\* The JSON paths of the samples rendered under an attempt, in page order.
SamplesOf(attempt) ==
    LET IsVoice(e) == e.k = "voice" /\ e.a = attempt
        voices == SelectSeq(out, IsVoice)
    IN  [i \in 1..Len(voices) |-> voices[i].p]

IsPrefix(s, t) == Len(s) <= Len(t) /\ \A i \in 1..Len(s) : s[i] = t[i]

Position(path) == CHOOSE n \in 1..Len(json_files) : json_files[n] = path

\* C1: the render never ends in an unhandled exception, whatever the JSON
\* files hold and whatever the state of the paired audio files.
C1_RenderNeverRaises == exc = NoException /\ pc # "crashed"

\* C2: the "Could not load JSON data." error is shown only for a file whose
\* loading failed, and every sample whose file parsed shows the JSON tree.
C2_TreeForEveryParsedDocument ==
    \A i \in Rendered("voice") :
        LET path == out[i].p
        IN  /\ files[path].st = "valid" => RenderedFor("json", path) # {}
            /\ RenderedFor("no_json_error", path) # {} => files[path].st # "valid"

\* C3: for every sample, the player is rendered exactly when the audio file
\* exists and the not-found error exactly when it is absent, and a sample
\* whose JSON loads while its audio is absent shows the tree and that error.
C3_MetadataAndAudioIndependent ==
    \A i \in Rendered("voice") :
        LET path == out[i].p
            wav == wav_path(Folder, path)
            exists == os_path_exists(audio, wav)
        IN  /\ exists <=> RenderedFor("audio", path) # {}
            /\ ~exists <=> RenderedFor("wav_not_found", path) # {}
            /\ files[path].st = "valid" /\ ~exists =>
                  /\ RenderedFor("json", path) # {}
                  /\ RenderedFor("wav_not_found", path) # {}

\* C4: a path is in the list of group k exactly when its base name matches
\* the pattern with second capture k; a matching path occurs exactly once in
\* the result and a non-matching one nowhere; no group is empty; nothing is
\* read or rendered, and so no error shown, for an excluded file.
C4_GroupsPartitionMatchingFiles ==
    Grouped =>
        LET matches == {<< path, AttemptMatch(os_path_basename(path)) >> :
                           path \in Paths}
            matched == {m[1] : m \in {x \in matches : x[2].ok}}
            keys == DOMAIN groups.lists
                    \cup {m[2].g2 : m \in {x \in matches : x[2].ok}}
        IN  /\ \A m \in matches :
                LET occurs == Occurrences(m[1])
                IN  /\ \A key \in keys :
                          (\E occ \in occurs : occ[1] = key)
                              <=> (m[2].ok /\ m[2].g2 = key)
                    /\ Cardinality(occurs) = IF m[2].ok THEN 1 ELSE 0
            /\ \A key \in DOMAIN groups.lists :
                /\ Len(groups.lists[key]) >= 1
                /\ \A j \in 1..Len(groups.lists[key]) :
                      groups.lists[key][j] \in Paths
            /\ DOMAIN groups.lists = {groups.keys[i] : i \in 1..Len(groups.keys)}
            /\ \A i \in 1..Len(out) : out[i].p # << >> => out[i].p \in matched
            /\ DOMAIN files \subseteq matched

\* C4 witness: a finished render of a folder that holds a matching file,
\* which was rendered, and a non-matching one.
C4_Witness ==
    /\ pc = "done"
    /\ \E path \in Paths : ~Matching(path)
    /\ \E path \in Paths : Matching(path) /\ RenderedFor("voice", path) # {}

\* C5: consecutive attempt subsections carry strictly increasing attempt
\* numbers, and a finished render has one subsection per attempt identifier.
C5_AttemptsStrictlyAscending ==
    /\ \A i, j \in Rendered("subheader") :
          i < j => int(out[i].a) < int(out[j].a)
    /\ pc = "done" =>
          \A key \in DOMAIN groups.lists :
              Cardinality(RenderedIn("subheader", key)) = 1

\* C6: matching files whose attempt identifiers denote the same integer are
\* in the same group, and no two subsections stand for the same integer.
C6_OneGroupPerAttemptNumber ==
    /\ Grouped =>
          \A p, q \in {x \in Paths : Matching(x)} :
              int(AttemptOf(p)) = int(AttemptOf(q)) =>
                  \E key \in DOMAIN groups.lists :
                      /\ \E occ \in Occurrences(p) : occ[1] = key
                      /\ \E occ \in Occurrences(q) : occ[1] = key
    /\ \A i, j \in Rendered("subheader") :
          i # j => int(out[i].a) # int(out[j].a)

PromptActed(attempt) ==
    /\ RenderedIn("subheader", attempt) # {}
    /\ ~(pc = "prompt" /\ attempts[ai] = attempt)

\* The prompt line the first file calls for.
ExpectedPrompt(first) ==
    LET f == files[first]
    IN  IF f.st # "valid" THEN Placeholder
        ELSE IF f.val.t # "object" THEN Placeholder
        ELSE IF "input_text" \in DOMAIN f.val.v THEN f.val.v["input_text"]
        ELSE Placeholder

\* C8: every attempt subsection has exactly one prompt line, ahead of its
\* samples: the first file's input_text when that file loads and has the
\* field, the placeholder in every other case.
C8_OnePromptPerAttempt ==
    \A key \in DOMAIN groups.lists :
        PromptActed(key) =>
            /\ Cardinality(RenderedIn("prompt", key)) = 1
            /\ \A i \in RenderedIn("prompt", key) :
                  /\ out[i].v = ExpectedPrompt(groups.lists[key][1])
                  /\ \A j \in RenderedIn("voice", key) : i < j

\* The load_error elements rendered for a path.
LoadErrors(path) == Cardinality(RenderedFor("load_error", path))

\* The load_json calls on a path.
CallsOn(path) == {i \in 1..Len(loads) : loads[i].p = path}

\* C9: every load_json call on a valid file returned the parsed document and
\* emitted no error; every call on a missing, unreadable or malformed file
\* returned None and emitted exactly one error; no exception left load_json.
C9_LoadJsonContract ==
    /\ \A i \in 1..Len(loads) :
          LET call == loads[i]
              f == files[call.p]
          IN  /\ f.st = "valid" => call.ret = f.val /\ call.errors = 0
              /\ f.st \in {"missing", "unreadable", "malformed"} =>
                    call.ret = None /\ call.errors = 1
    /\ \A path \in DOMAIN files :
          LoadErrors(path) =
              IF files[path].st = "valid" THEN 0 ELSE Cardinality(CallsOn(path))
    /\ exc.line \notin 10..16

\* C9 witness: one call has returned a parsed object and another has failed.
C9_Witness ==
    /\ \E i \in 1..Len(loads) :
          /\ files[loads[i].p].st = "valid"
          /\ loads[i].ret = JObject([f \in {"input_text"} |-> Hello])
    /\ \E i \in 1..Len(loads) :
          /\ files[loads[i].p].st = "malformed"
          /\ LoadErrors(loads[i].p) >= 1

\* C10: the voice label shown for a grouped file is the first capture of the
\* grouping pattern on its name, and never the fallback label.
C10_VoiceIsFirstCapture ==
    \A i \in Rendered("voice") :
        /\ out[i].v = AttemptMatch(os_path_basename(out[i].p)).g1
        /\ out[i].v # Unknown

====
